---- MODULE Spec2Model ----
(***************************************************************************)
(* Model of server.py: an HTTPS static file server that provisions a       *)
(* self-signed certificate (ensure_cert), picks a document root, binds a   *)
(* ThreadingTCPServer whose listening socket is wrapped in TLS, and serves *)
(* files with two cross-origin isolation headers added in end_headers.     *)
(*                                                                         *)
(* The main thread walks through run(); every accepted connection gets a   *)
(* handler thread.  The file system, the openssl tool, the clients and the *)
(* operator's interrupt are the environment.                               *)
(***************************************************************************)
EXTENDS Integers, Sequences, FiniteSets, TLC

\* ---------------------------------------------------------------- bounds
NumClients == 2
MaxDeletes == 1

Clients == 1..NumClients

\* ------------------------------------------------------------ file system
Absent == [st |-> "absent", id |-> 0]
EmptyFile == [st |-> "empty", id |-> 0]
OldData == [st |-> "data", id |-> 0]
Generated(n) == [st |-> "data", id |-> n]

\* os.path.exists on a certificate file
Exists(f) == f.st # "absent"

\* files present under every directory that exists, and a subdirectory
Files == {"index.html", "app.wasm"}
SubDirs == {"sub"}

VARIABLES
  pc,            \* position of the main thread in run()
  CERT_FILE,      \* cert/cert.pem
  KEY_FILE,       \* cert/key.pem
  buildKind,     \* ./build in the start directory: "absent", "dir" or "file"
  directory,     \* the handler's directory= argument: "none", "cwd", "build"
  buildAtChdir,  \* what ./build was when the root was chosen
  listening,     \* the listening socket is bound
  kind,          \* behaviour of each client
  conn,          \* state of each client's connection
  resp,          \* response each client received
  hsClient,      \* client whose handshake runs inside accept(), 0 if none
  threads,       \* clients whose handler thread is running (httpd._threads)
  exitStatus,    \* requested or final exit status, -1 while none
  notice,        \* the shutdown notice was printed
  interruptedAt, \* where the main thread was when the interrupt arrived
  toolRuns,      \* invocations of openssl by this process
  genFailed,     \* generation failed in this process
  ensureOK,      \* ensure_cert returned with both files present
  genCount,      \* successful generations over all process runs
  deletes        \* external deletions of a certificate file

vars == <<pc, CERT_FILE, KEY_FILE, buildKind, directory, buildAtChdir,
          listening, kind, conn, resp, hsClient, threads, exitStatus,
          notice, interruptedAt, toolRuns, genFailed, ensureOK, genCount,
          deletes>>

diskVars == <<CERT_FILE, KEY_FILE, buildKind>>
clientVars == <<kind, conn, resp, hsClient, threads>>
certHist == <<toolRuns, genFailed, ensureOK, genCount>>

NoResp == [line |-> "none", path |-> "none", version |-> "none",
           status |-> 0, wire |-> <<>>, body |-> <<>>, root |-> "none"]

\* --------------------------------------------------------------- handler
COOP == "Cross-Origin-Opener-Policy: same-origin"
COEP == "Cross-Origin-Embedder-Policy: require-corp"
EndOfHeaders == "CRLF"

\* request lines a client may send
Requests ==
  {[line |-> "v11", path |-> "index.html"],
   [line |-> "v11", path |-> "app.wasm"],
   [line |-> "v11", path |-> "nope"],
   [line |-> "v11", path |-> "sub"],
   [line |-> "cond", path |-> "index.html"],
   [line |-> "post", path |-> "index.html"],
   [line |-> "long", path |-> "index.html"],
   [line |-> "v09", path |-> "index.html"],
   [line |-> "v09", path |-> "nope"],
   [line |-> "badver", path |-> "index.html"]}

\* BaseHTTPRequestHandler.parse_request: the request version in force when
\* the response is written.  It starts as HTTP/0.9 and is only replaced once
\* a well-formed version has been parsed; an over-long line clears it.
request_version(line) ==
  CASE line \in {"v11", "cond", "post"} -> "HTTP/1.1"
    [] line = "long" -> ""
    [] OTHER -> "HTTP/0.9"

\* BaseHTTPRequestHandler.send_header
send_header(buf, ver, h) == IF ver = "HTTP/0.9" THEN buf ELSE Append(buf, h)

\* BaseHTTPRequestHandler.send_response: status line, Server and Date
send_response(ver, code) ==
  send_header(send_header(send_header(<<>>, ver, "Status"), ver, "Server"),
              ver, "Date")

\* BaseHTTPRequestHandler.end_headers
super_end_headers(buf, ver) ==
  IF ver = "HTTP/0.9" THEN buf ELSE Append(buf, EndOfHeaders)

end_headers_OnlyOpener(buf, ver) ==
  super_end_headers(send_header(buf, ver, COOP), ver)

\* Handler.end_headers
end_headers(buf, ver) ==
  super_end_headers(send_header(send_header(buf, ver, COOP), ver, COEP), ver)

\* what lies at dir/path when the request is handled
DirExists(dir, b) == dir = "cwd" \/ (dir = "build" /\ b = "dir")
IsFile(dir, path, b) == DirExists(dir, b) /\ path \in Files
IsDir(dir, path, b) == DirExists(dir, b) /\ path \in SubDirs
Content(dir, path) == <<dir, path>>

\* status the handler answers with
StatusOf(r, dir, b) ==
  CASE r.line = "long" -> 414
    [] r.line = "badver" -> 400
    [] r.line = "post" -> 501
    [] IsDir(dir, r.path, b) -> 301
    [] ~IsFile(dir, r.path, b) -> 404
    [] r.line = "cond" -> 304
    [] OTHER -> 200

\* headers the base class sends before end_headers, by status
BaseHeaders(ver, code) ==
  LET h0 == send_response(ver, code) IN
  CASE code = 200 ->
         send_header(send_header(send_header(h0, ver, "Content-type"),
                                 ver, "Content-Length"), ver, "Last-Modified")
    [] code = 301 ->
         send_header(send_header(h0, ver, "Location"), ver, "Content-Length")
    [] code = 304 -> h0
    [] OTHER ->
         send_header(send_header(send_header(h0, ver, "Connection"),
                                 ver, "Content-Type"), ver, "Content-Length")

\* one request handled by Handler (handle_one_request)
Respond(r, dir, b) ==
  LET ver == request_version(r.line)
      code == StatusOf(r, dir, b)
  IN [line |-> r.line,
      path |-> r.path,
      version |-> ver,
      status |-> code,
      wire |-> end_headers(BaseHeaders(ver, code), ver),
      body |-> IF code = 200 THEN Content(dir, r.path)
               ELSE IF code \in {301, 304} THEN <<>>
               ELSE <<"error page">>,
      root |-> dir]

\* ------------------------------------------------------------ ensure_cert
NeedsGeneration_Always(c, k) == TRUE

\* first test: is a file of the pair missing
NeedsGeneration(c, k) == ~(Exists(c) /\ Exists(k))

PostCheckFails_CertOnly(c, k) == ~Exists(c)

\* second test, after the tool ran: is a file of the pair still missing
PostCheckFails(c, k) == ~(Exists(c) /\ Exists(k))

RunRaises_NoCheck(code) == FALSE

\* subprocess.run(..., check=True) raises on a non-zero exit
RunRaises(code) == code # 0

\* what a run of openssl can do: exit status and the files it wrote
ToolOutcomes ==
  {[exit |-> 0, key |-> TRUE, cert |-> TRUE],
   [exit |-> 0, key |-> FALSE, cert |-> FALSE],
   [exit |-> 1, key |-> FALSE, cert |-> FALSE],
   [exit |-> 1, key |-> TRUE, cert |-> FALSE]}

\* ------------------------------------------------------------------- run
ChooseRoot_AlwaysCwd(b) == "cwd"

\* "build" if os.path.exists("build") else "."
ChooseRoot(b) == IF b # "absent" THEN "build" ELSE "cwd"

\* ssl.SSLContext.load_cert_chain accepts a matching, non-empty pair
LoadsCertChain(c, k) == c.st = "data" /\ k.st = "data" /\ c.id = k.id

\* kinds of client: a TLS client, one speaking plain HTTP, one that resets
\* the connection during the handshake, one that never finishes the
\* handshake, one that handshakes and then never finishes its request
Kinds == {"good", "plain", "abort", "stall_hs", "stall_req"}

AcceptResult_NoHandshake(k) == "handshaken"

\* ThreadingTCPServer.get_request on the wrapped listening socket: accept()
\* runs the handshake (do_handshake_on_connect) before it returns
AcceptResult(k) ==
  CASE k \in {"good", "stall_req"} -> "handshaken"
    [] k \in {"plain", "abort"} -> "oserror"
    [] OTHER -> "blocked"

OnAcceptError_Propagates == "raise"

\* serve_forever: an OSError of get_request is swallowed and the loop goes on
OnAcceptError == "continue"

\* the client sends a complete request line once its connection is up
SendsRequest(k) == k \in {"good", "plain"}

\* closing the listening socket ends the connections no thread owns
Dropped(cn) ==
  [c \in Clients |->
     IF cn[c] \in {"queued", "handshaking"} THEN "failed" ELSE cn[c]]

Init ==
  /\ pc = "start"
  /\ CERT_FILE \in {Absent, EmptyFile, OldData}
  /\ KEY_FILE \in {Absent, EmptyFile, OldData}
  /\ buildKind \in {"absent", "dir", "file"}
  /\ directory = "none"
  /\ buildAtChdir = "none"
  /\ listening = FALSE
  /\ kind = [c \in Clients |-> "good"]
  /\ conn = [c \in Clients |-> "idle"]
  /\ resp = [c \in Clients |-> NoResp]
  /\ hsClient = 0
  /\ threads = {}
  /\ exitStatus = -1
  /\ notice = FALSE
  /\ interruptedAt = "none"
  /\ toolRuns = 0
  /\ genFailed = FALSE
  /\ ensureOK = FALSE
  /\ genCount = 0
  /\ deletes = 0

\* ensure_cert up to the start of openssl, or all of it when nothing is
\* generated
ensure_cert ==
  /\ pc = "start"
  /\ IF NeedsGeneration(CERT_FILE, KEY_FILE)
     THEN \E installed \in BOOLEAN :
            /\ toolRuns' = toolRuns + 1
            /\ IF installed
               THEN pc' = "gen" /\ UNCHANGED <<exitStatus, genFailed>>
               ELSE pc' = "exited" /\ exitStatus' = 1 /\ genFailed' = TRUE
            /\ UNCHANGED ensureOK
     ELSE /\ IF PostCheckFails(CERT_FILE, KEY_FILE)
             THEN pc' = "exited" /\ exitStatus' = 1 /\ UNCHANGED ensureOK
             ELSE /\ pc' = "chdir"
                  /\ ensureOK' = (Exists(CERT_FILE) /\ Exists(KEY_FILE))
                  /\ UNCHANGED exitStatus
          /\ UNCHANGED <<toolRuns, genFailed>>
  /\ UNCHANGED <<diskVars, directory, buildAtChdir, listening, clientVars,
                 notice, interruptedAt, genCount, deletes>>

\* openssl ends; the rest of ensure_cert
GenFinish ==
  /\ pc = "gen"
  /\ \E out \in ToolOutcomes :
       /\ CERT_FILE' = IF out.cert THEN Generated(genCount + 1) ELSE CERT_FILE
       /\ KEY_FILE' = IF out.key THEN Generated(genCount + 1) ELSE KEY_FILE
       /\ genCount' = IF out.exit = 0 /\ out.cert /\ out.key
                      THEN genCount + 1 ELSE genCount
       /\ genFailed' = (out.exit # 0 \/ ~Exists(CERT_FILE') \/ ~Exists(KEY_FILE'))
       /\ IF RunRaises(out.exit) \/ PostCheckFails(CERT_FILE', KEY_FILE')
          THEN pc' = "exited" /\ exitStatus' = 1 /\ UNCHANGED ensureOK
          ELSE /\ pc' = "chdir"
               /\ ensureOK' = (Exists(CERT_FILE') /\ Exists(KEY_FILE'))
               /\ UNCHANGED exitStatus
  /\ UNCHANGED <<buildKind, directory, buildAtChdir, listening, clientVars,
                 notice, interruptedAt, toolRuns, deletes>>

\* os.chdir and the handler's directory
Chdir ==
  /\ pc = "chdir"
  /\ LET target == ChooseRoot(buildKind) IN
       IF target = "build" /\ buildKind # "dir"
       THEN /\ pc' = "exited" /\ exitStatus' = 1
            /\ UNCHANGED <<directory, buildAtChdir>>
       ELSE /\ pc' = "bind" /\ directory' = target
            /\ buildAtChdir' = buildKind
            /\ UNCHANGED exitStatus
  /\ UNCHANGED <<diskVars, listening, clientVars, notice, interruptedAt,
                 certHist, deletes>>

\* the ThreadingTCPServer constructor binds and listens, or fails
Bind ==
  /\ pc = "bind"
  /\ \E free \in BOOLEAN :
       IF free
       THEN pc' = "tls_setup" /\ listening' = TRUE /\ UNCHANGED exitStatus
       ELSE pc' = "exited" /\ exitStatus' = 1 /\ UNCHANGED listening
  /\ UNCHANGED <<diskVars, directory, buildAtChdir, clientVars, notice,
                 interruptedAt, certHist, deletes>>

\* load_cert_chain, wrap_socket and the banner; a failure leaves the with
\* block, which closes the server
TlsSetup ==
  /\ pc = "tls_setup"
  /\ IF LoadsCertChain(CERT_FILE, KEY_FILE)
     THEN pc' = "select" /\ UNCHANGED <<listening, conn, exitStatus>>
     ELSE /\ pc' = "exited" /\ exitStatus' = 1
          /\ listening' = FALSE /\ conn' = Dropped(conn)
  /\ UNCHANGED <<diskVars, directory, buildAtChdir, kind, resp, hsClient,
                 threads, notice, interruptedAt, certHist, deletes>>

\* a client opens a TCP connection; it waits in the listen queue
Connect(c) ==
  /\ listening
  /\ conn[c] = "idle"
  /\ \E k \in Kinds : kind' = [kind EXCEPT ![c] = k]
  /\ conn' = [conn EXCEPT ![c] = "queued"]
  /\ UNCHANGED <<pc, diskVars, directory, buildAtChdir, listening, resp,
                 hsClient, threads, exitStatus, notice, interruptedAt,
                 certHist, deletes>>

\* serve_forever calls get_request: accept() and the start of the handshake
Accept(c) ==
  /\ pc = "select"
  /\ conn[c] = "queued"
  /\ pc' = "handshake"
  /\ hsClient' = c
  /\ conn' = [conn EXCEPT ![c] = "handshaking"]
  /\ UNCHANGED <<diskVars, directory, buildAtChdir, listening, kind, resp,
                 threads, exitStatus, notice, interruptedAt, certHist,
                 deletes>>

\* get_request returns; process_request starts the handler thread
HandshakeDone ==
  /\ pc = "handshake"
  /\ AcceptResult(kind[hsClient]) = "handshaken"
  /\ pc' = "select"
  /\ conn' = [conn EXCEPT ![hsClient] = "established"]
  /\ threads' = threads \cup {hsClient}
  /\ hsClient' = 0
  /\ UNCHANGED <<diskVars, directory, buildAtChdir, listening, kind, resp,
                 exitStatus, notice, interruptedAt, certHist, deletes>>

\* get_request raises an OSError
HandshakeFail ==
  /\ pc = "handshake"
  /\ AcceptResult(kind[hsClient]) = "oserror"
  /\ hsClient' = 0
  /\ IF OnAcceptError = "continue"
     THEN /\ pc' = "select"
          /\ conn' = [conn EXCEPT ![hsClient] = "failed"]
          /\ UNCHANGED <<listening, exitStatus>>
     ELSE /\ pc' = "closing" /\ exitStatus' = 1
          /\ listening' = FALSE /\ conn' = Dropped(conn)
  /\ UNCHANGED <<diskVars, directory, buildAtChdir, kind, resp, threads,
                 notice, interruptedAt, certHist, deletes>>

\* a handler thread reads a request, answers it and ends
HandleRequest(c) ==
  /\ c \in threads
  /\ conn[c] = "established"
  /\ SendsRequest(kind[c])
  /\ \E r \in Requests :
       resp' = [resp EXCEPT ![c] = Respond(r, directory, buildKind)]
  /\ conn' = [conn EXCEPT ![c] = "answered"]
  /\ threads' = threads \ {c}
  /\ UNCHANGED <<pc, diskVars, directory, buildAtChdir, listening, kind,
                 hsClient, exitStatus, notice, interruptedAt, certHist,
                 deletes>>

\* KeyboardInterrupt in the main thread
Interrupt ==
  /\ pc \in {"start", "gen", "chdir", "bind", "tls_setup", "select",
             "handshake"}
  /\ interruptedAt' = pc
  /\ IF pc \in {"select", "handshake"}
     THEN /\ notice' = TRUE
          /\ exitStatus' = 0
          /\ pc' = "closing"
     ELSE /\ exitStatus' = 130
          /\ pc' = "exited"
          /\ UNCHANGED notice
  /\ listening' = FALSE
  /\ conn' = Dropped(conn)
  /\ hsClient' = 0
  /\ UNCHANGED <<diskVars, directory, buildAtChdir, kind, resp, threads,
                 certHist, deletes>>

\* server_close joins the handler threads, then the process ends
JoinDone ==
  /\ pc = "closing"
  /\ threads = {}
  /\ pc' = "exited"
  /\ UNCHANGED <<diskVars, directory, buildAtChdir, listening, clientVars,
                 exitStatus, notice, interruptedAt, certHist, deletes>>

\* the operator starts the script again
Restart ==
  /\ pc = "exited"
  /\ pc' = "start"
  /\ directory' = "none"
  /\ buildAtChdir' = "none"
  /\ kind' = [c \in Clients |-> "good"]
  /\ conn' = [c \in Clients |-> "idle"]
  /\ resp' = [c \in Clients |-> NoResp]
  /\ exitStatus' = -1
  /\ notice' = FALSE
  /\ interruptedAt' = "none"
  /\ toolRuns' = 0
  /\ genFailed' = FALSE
  /\ ensureOK' = FALSE
  /\ UNCHANGED <<diskVars, listening, hsClient, threads, genCount, deletes>>

\* somebody deletes a certificate file
DeleteCert ==
  /\ deletes < MaxDeletes
  /\ pc \in {"start", "gen", "chdir", "bind", "tls_setup"}
  /\ \/ Exists(CERT_FILE) /\ CERT_FILE' = Absent /\ UNCHANGED KEY_FILE
     \/ Exists(KEY_FILE) /\ KEY_FILE' = Absent /\ UNCHANGED CERT_FILE
  /\ deletes' = deletes + 1
  /\ UNCHANGED <<pc, buildKind, directory, buildAtChdir, listening,
                 clientVars, exitStatus, notice, interruptedAt, certHist>>

\* somebody creates or removes ./build
ChangeBuild ==
  /\ pc # "exited"
  /\ buildKind' = IF buildKind = "absent" THEN "dir" ELSE "absent"
  /\ UNCHANGED <<pc, CERT_FILE, KEY_FILE, directory, buildAtChdir, listening,
                 clientVars, exitStatus, notice, interruptedAt, certHist,
                 deletes>>

MainThread ==
  \/ ensure_cert
  \/ GenFinish
  \/ Chdir
  \/ Bind
  \/ TlsSetup
  \/ \E c \in Clients : Accept(c)
  \/ HandshakeDone
  \/ HandshakeFail
  \/ JoinDone

Next ==
  \/ MainThread
  \/ \E c \in Clients : HandleRequest(c)
  \/ \E c \in Clients : Connect(c)
  \/ Interrupt
  \/ Restart
  \/ DeleteCert
  \/ ChangeBuild

Spec == Init /\ [][Next]_vars

\* ------------------------------------------------------------ properties
Range(s) == {s[i] : i \in 1..Len(s)}
Serving == {"select", "handshake"}

EnsureCertReturns == pc \in {"start", "gen"} /\ pc' = "chdir"

\* C2 (as claimed): whenever ensure_cert returns normally both files exist
\* and are non-empty.
C2_ReturnImpliesNonEmpty ==
  [][EnsureCertReturns => CERT_FILE'.st = "data" /\ KEY_FILE'.st = "data"]_vars

\* C2 (amended): whenever ensure_cert returns normally both files exist; a
\* file is either non-empty or the file that was already there, untouched.
C2_ReturnImpliesExist ==
  [][EnsureCertReturns =>
       /\ Exists(CERT_FILE') /\ Exists(KEY_FILE')
       /\ (CERT_FILE'.st = "data" \/ CERT_FILE' = CERT_FILE)
       /\ (KEY_FILE'.st = "data" \/ KEY_FILE' = KEY_FILE)]_vars

\* C2 witness: ensure_cert has returned after generating the pair
C2_Witness ==
  /\ pc = "chdir" /\ ensureOK /\ toolRuns = 1
  /\ CERT_FILE.st = "data" /\ KEY_FILE = CERT_FILE

\* C3: with both files present at its start ensure_cert does not run the
\* tool and changes neither file; over all runs the pair is generated at
\* most once more than files were deleted externally.
C3_ReuseExistingPair ==
  /\ [](genCount <= 1 + deletes)
  /\ [][(pc = "start" /\ pc' # "start" /\ Exists(CERT_FILE) /\ Exists(KEY_FILE))
          => /\ toolRuns' = toolRuns
             /\ genCount' = genCount
             /\ CERT_FILE' = CERT_FILE
             /\ KEY_FILE' = KEY_FILE]_vars

\* C3 witness: a later run has gone through ensure_cert on the generated pair
C3_Witness ==
  /\ pc = "chdir" /\ ensureOK /\ toolRuns = 0
  /\ genCount = 1 /\ CERT_FILE = Generated(1) /\ KEY_FILE = Generated(1)

\* C4: after a failed generation the process has ended with a non-zero
\* status, after one run of the tool at most, without a listener and without
\* a document root; a listener exists only after ensure_cert returned with
\* both files present.
C4_FailedGenerationIsFatal ==
  /\ genFailed =>
       /\ pc = "exited"
       /\ exitStatus \notin {-1, 0}
       /\ toolRuns = 1
       /\ ~listening
       /\ directory = "none"
       /\ \A c \in Clients : conn[c] = "idle"
  /\ listening => ensureOK
  /\ pc \in {"bind", "tls_setup", "select", "handshake", "closing"}
       => ensureOK

\* C4 witness: the tool ran, a file is still absent, the process ended
C4_Witness ==
  /\ genFailed /\ pc = "exited" /\ exitStatus = 1
  /\ toolRuns = 1 /\ ~Exists(CERT_FILE)

\* C5: an interrupt at any point of the process lifetime ends the process
\* with the shutdown notice printed and status 0.
C5_InterruptAlwaysGraceful ==
  (interruptedAt # "none" /\ pc = "exited") => (notice /\ exitStatus = 0)

\* C6: while serving, a client waiting to be accepted is never held up by
\* another client that stalls: the main thread can always take a step.
C6_StalledClientNeverBlocksOthers ==
  \A d \in Clients :
    (conn[d] = "queued" /\ kind[d] = "good" /\ pc \in Serving)
      => ENABLED MainThread

\* C7: a client that does not complete a TLS handshake never gets a handler
\* thread and never receives a response.
C7_NoRequestWithoutHandshake ==
  \A c \in Clients :
    (conn[c] # "idle" /\ kind[c] \in {"plain", "abort", "stall_hs"}) =>
      /\ c \notin threads
      /\ resp[c] = NoResp
      /\ conn[c] \in {"queued", "handshaking", "failed"}

\* C7 witness: a plain-HTTP client was turned away while the server serves
C7_Witness ==
  /\ pc = "select"
  /\ \E c \in Clients : kind[c] = "plain" /\ conn[c] = "failed"

\* C8: the document root is chosen once, after provisioning, as build if
\* build existed at that moment and the start directory otherwise; it does
\* not change while the process lives, and every response is resolved
\* against it.
C8_RootFixedAtStartup ==
  /\ [](directory # "none" =>
          /\ ensureOK
          /\ directory = IF buildAtChdir = "absent" THEN "cwd" ELSE "build")
  /\ [](\A c \in Clients :
          resp[c] # NoResp =>
            /\ resp[c].root = directory
            /\ resp[c].status = 200 =>
                 resp[c].body = Content(directory, resp[c].path))
  /\ [][(directory # "none" /\ pc' # "start") => directory' = directory]_vars

\* C8 witness: build was created after startup and the file still came from
\* the start directory
C8_Witness ==
  \E c \in Clients :
    /\ resp[c].status = 200
    /\ resp[c].body = Content("cwd", "index.html")
    /\ buildKind = "dir"

\* C9: after an interrupt during serving the exit is not held up by a
\* handler thread that a slow client keeps running.
C9_ExitDoesNotWaitForHandlers ==
  (pc = "closing" /\ \E c \in threads : kind[c] = "stall_req")
    => ENABLED JoinDone

====
